---- MODULE Spec2Model ----
(***************************************************************************)
(* A model of facebookmarketing.client.Client: the client object, the     *)
(* request-building methods, the send step (_request) and the response    *)
(* classification (_parse).  One call at a time runs through the client,  *)
(* one step per source statement that reads or writes shared state, while *)
(* set_access_token may run between any two steps (a second thread that   *)
(* shares the client).                                                     *)
(***************************************************************************)
EXTENDS Integers, Sequences, FiniteSets, TLC

(***************************************************************************)
(* Values.  Python's None is a value distinct from every string.          *)
(***************************************************************************)
None == "<None>"

\* Python truthiness of a value that is a str or None.
Truthy(v) == v # None /\ v # ""

AppIds      == {"app1"}
AppSecrets  == {"secretA"}
Versions    == {"v2.12"}
TokenValues == {None, "", "tokA", "tokB"}
PageIds     == {"p1", "p2"}
RedirectUrls == {"https://app.example.com/cb"}
OauthCodes  == {"code1"}
Scopes      == {<<>>, <<"email", "pages_show_list">>}

\* A datetime of January 1970 (UTC), and datetime.timestamp() on it.
\* from_date=None is NoDate.
NoDate == [isNone |-> TRUE]
DateTimes == {[isNone |-> FALSE, year |-> 1970, month |-> 1, day |-> 1],
              [isNone |-> FALSE, year |-> 1970, month |-> 1, day |-> 2]}
Timestamp(d) == (d.day - 1) * 86400

\* hmac.new(key, msg, sha256).hexdigest(): a keyed digest, modelled as the
\* free term over (key, msg); distinct inputs give distinct digests.
HmacSha256Hex(key, msg) == <<"hmac-sha256-hex", key, msg>>

\* ' '.join(scope)
RECURSIVE Join(_)
Join(scope) ==
    IF Len(scope) = 0 THEN ""
    ELSE IF Len(scope) = 1 THEN scope[1]
    ELSE scope[1] \o " " \o Join(Tail(scope))

\* How a call ends: a returned value, or a raised error and its detail.
Return(v) == [kind |-> "return", isNone |-> FALSE, value |-> v]
ReturnNone == [kind |-> "return", isNone |-> TRUE]
Raise(exc, det) == [kind |-> "raise", exc |-> exc, detail |-> det]

(***************************************************************************)
(* JSON bodies.  A decoded object is a function from its keys.  A value    *)
(* under "error" or "data" carries its JSON type in t, with the keys of a  *)
(* dict in d and the items of a list in l.                                 *)
(***************************************************************************)
EmptyDict == [k \in {} |-> 0]
JNull    == [t |-> "null", d |-> EmptyDict, l |-> <<>>]
JDict(f) == [t |-> "dict", d |-> f, l |-> <<>>]
JList(s) == [t |-> "list", d |-> EmptyDict, l |-> s]

\* bool(x) of a decoded JSON value: None and the empty dict/list are falsy.
JTruthy(x) ==
    CASE x.t = "null" -> FALSE
      [] x.t = "dict" -> DOMAIN x.d # {}
      [] x.t = "list" -> Len(x.l) > 0

\* `key in x` for a decoded dict or list.  The lists of the model hold page
\* dicts only, so no list has the string key as a member.
KeyIn(key, x) ==
    CASE x.t = "dict" -> key \in DOMAIN x.d
      [] x.t = "list" -> FALSE
      [] x.t = "null" -> FALSE

(***************************************************************************)
(* facebookmarketing.enumerator.ErrorEnum: the numeric codes of the nine   *)
(* kinds of the classification table.                                      *)
(***************************************************************************)
ErrorEnumMembers ==
    [UnknownError |-> 1, AppRateLimit |-> 4, AppPermissionRequired |-> 10,
     UserRateLimit |-> 17, InvalidParameter |-> 100, SessionKeyInvalid |-> 102,
     IncorrectPermission |-> 104, InvalidOauth20AccessToken |-> 190,
     ExtendedPermissionRequired |-> 294]

ErrorEnumCodes == {ErrorEnumMembers[k] : k \in DOMAIN ErrorEnumMembers}

\* ErrorEnum(code): the member whose value is code ("ValueError": none).
ErrorEnum(code) ==
    IF code \in ErrorEnumCodes
    THEN CHOOSE k \in DOMAIN ErrorEnumMembers : ErrorEnumMembers[k] = code
    ELSE "ValueError"

\* 'Error: {}. Message {}'.format(code, message)
FormatError(code, message) == <<"Error: ", code, ". Message ", message>>

\* The error object _parse locates: response['error'], else
\* response['data']['error'], else None.
LocateError(body) ==
    IF "error" \in DOMAIN body THEN body["error"]
    ELSE IF "data" \in DOMAIN body /\ KeyIn("error", body["data"])
         THEN body["data"].d["error"]
         ELSE JNull

\* The branch of _parse taken for a member of ErrorEnum.
RaiseFor(error_enum, code, message) ==
    CASE error_enum = "UnknownError" -> Raise("UnknownError", message)
      [] error_enum = "AppRateLimit" -> Raise("AppRateLimitError", message)
      [] error_enum = "AppPermissionRequired" ->
            Raise("AppPermissionRequiredError", message)
      [] error_enum = "UserRateLimit" -> Raise("UserRateLimitError", message)
      [] error_enum = "InvalidParameter" ->
            Raise("InvalidParameterError", message)
      [] error_enum = "SessionKeyInvalid" ->
            Raise("SessionKeyInvalidError", message)
      [] error_enum = "IncorrectPermission" ->
            Raise("IncorrectPermissionError", message)
      [] error_enum = "InvalidOauth20AccessToken" ->
            Raise("PermissionError", message)
      [] error_enum = "ExtendedPermissionRequired" ->
            Raise("ExtendedPermissionRequiredError", message)
      [] OTHER -> Raise("BaseError", FormatError(code, message))

\* _parse without the except branch: the enum's ValueError escapes.
Parse_NoExcept(body) ==
    LET error == LocateError(body) IN
    IF JTruthy(error)
    THEN IF "code" \notin DOMAIN error.d THEN Raise("KeyError", "code")
         ELSE IF "message" \notin DOMAIN error.d
              THEN Raise("KeyError", "message")
         ELSE LET code == error.d["code"]
                  message == error.d["message"]
                  error_enum == ErrorEnum(code)
              IN IF error_enum = "ValueError"
                 THEN Raise("ValueError", "not a valid ErrorEnum")
                 ELSE RaiseFor(error_enum, code, message)
    ELSE Return(body)

\* Client._parse
Parse(body) ==
    LET error == LocateError(body) IN
    IF JTruthy(error)
    THEN IF "code" \notin DOMAIN error.d THEN Raise("KeyError", "code")
         ELSE IF "message" \notin DOMAIN error.d
              THEN Raise("KeyError", "message")
         ELSE LET code == error.d["code"]
                  message == error.d["message"]
                  error_enum == ErrorEnum(code)
              IN IF error_enum = "ValueError"
                 THEN Raise("UnexpectedError", FormatError(code, message))
                 ELSE RaiseFor(error_enum, code, message)
    ELSE Return(body)

(***************************************************************************)
(* The bodies the remote API may answer with.                              *)
(***************************************************************************)
ErrorCodes   == ErrorEnumCodes \cup {999999}
Messages     == {"limit", "x"}

ErrorDicts ==
    {JDict([code |-> c, message |-> m]) : c \in ErrorCodes, m \in Messages}
    \cup {JDict([code |-> 4]), JDict([message |-> "x"]), JDict(EmptyDict)}

ErrorValues == ErrorDicts \cup {JNull}

NestedErrorValues ==
    {JDict([code |-> 4, message |-> "limit"]),
     JDict([code |-> 999999, message |-> "x"]),
     JDict([message |-> "x"]), JDict(EmptyDict), JNull}

\* The page lists of at most MaxPages entries.
MaxPages == 2
Page(id, tok) == [id |-> id, access_token |-> tok]
Pages == {Page("p1", "ptA"), Page("p2", "ptB"), Page("p1", "ptC")}
PageLists == UNION {[1..n -> Pages] : n \in 0..MaxPages}

Bodies ==
    {[id |-> "me"]}
    \cup {[error |-> e] : e \in ErrorValues}
    \cup {[data |-> JDict([error |-> e])] : e \in NestedErrorValues}
    \cup {[data |-> JDict(EmptyDict)]}
    \cup {[data |-> JList(l)] : l \in PageLists}
    \cup {[error |-> JDict(EmptyDict), data |-> JList(<<Page("p1", "ptA")>>)],
          [error |-> JDict([code |-> 4, message |-> "limit"]),
           data |-> JDict([error |-> JDict([code |-> 1, message |-> "x"])])]}

(***************************************************************************)
(* State.                                                                  *)
(***************************************************************************)
VARIABLES
    app_id,        \* self.app_id
    app_secret,    \* self.app_secret
    version,       \* self.version
    BASE_URL,      \* self.BASE_URL
    access_token,  \* self.access_token
    pc,            \* position of the call in progress ("idle": none)
    call,          \* the method in progress (or last run) and its arguments
    local,         \* its locals: _token and params
    requests,      \* HTTP requests sent by the call in progress (or last run)
    response,      \* decoded JSON body the call received (NoBody: none)
    result,        \* how the call ended: returned value or raised error
    everSet,       \* history: set_access_token has been invoked
    raced          \* history: set_access_token ran since the call began

client == <<app_id, app_secret, version, BASE_URL, access_token>>
vars == <<app_id, app_secret, version, BASE_URL, access_token,
          pc, call, local, requests, response, result, everSet, raced>>

NoCall   == [op |-> "none", id |-> None, token |-> None, from_date |-> NoDate,
             redirect_url |-> None, scope |-> <<>>]
NoLocal  == [_token |-> None, params |-> <<>>]
NoBody   == [nobody |-> TRUE]
NoResult == [kind |-> "none"]

\* Client.__init__ with the token field preset from another argument.
Init_TokenPreset ==
    /\ app_id \in AppIds
    /\ app_secret \in AppSecrets
    /\ version \in Versions
    /\ BASE_URL = "https://graph.facebook.com/" \o version
    /\ access_token = app_secret
    /\ pc = "idle"
    /\ call = NoCall
    /\ local = NoLocal
    /\ requests = <<>>
    /\ response = NoBody
    /\ result = NoResult
    /\ everSet = FALSE
    /\ raced = FALSE

\* Client.__init__
Init ==
    /\ app_id \in AppIds
    /\ app_secret \in AppSecrets
    /\ version \in Versions
    /\ BASE_URL = "https://graph.facebook.com/" \o version
    /\ access_token = None
    /\ pc = "idle"
    /\ call = NoCall
    /\ local = NoLocal
    /\ requests = <<>>
    /\ response = NoBody
    /\ result = NoResult
    /\ everSet = FALSE
    /\ raced = FALSE

\* set_access_token that keeps the old token when given an empty one.
set_access_token_Validating(token) ==
    /\ access_token' = IF Truthy(token) THEN token ELSE access_token
    /\ everSet' = TRUE
    /\ raced' = TRUE
    /\ UNCHANGED <<app_id, app_secret, version, BASE_URL,
                   pc, call, local, requests, response, result>>

\* Client.set_access_token
set_access_token(token) ==
    /\ access_token' = token
    /\ everSet' = TRUE
    /\ raced' = TRUE
    /\ UNCHANGED <<app_id, app_secret, version, BASE_URL,
                   pc, call, local, requests, response, result>>

(***************************************************************************)
(* Entering and leaving a call.                                            *)
(***************************************************************************)
Begin(c, loc, at) ==
    /\ call' = c
    /\ local' = loc
    /\ pc' = at
    /\ requests' = <<>>
    /\ response' = NoBody
    /\ result' = NoResult
    /\ raced' = FALSE
    /\ UNCHANGED <<app_id, app_secret, version, BASE_URL, access_token, everSet>>

\* A method that ends within its first step.
Immediate(c, r) ==
    /\ call' = c
    /\ local' = NoLocal
    /\ pc' = "idle"
    /\ requests' = <<>>
    /\ response' = NoBody
    /\ result' = r
    /\ raced' = FALSE
    /\ UNCHANGED <<app_id, app_secret, version, BASE_URL, access_token, everSet>>

Finish(r) ==
    /\ pc' = "idle"
    /\ result' = r
    /\ UNCHANGED <<app_id, app_secret, version, BASE_URL, access_token,
                   call, local, requests, response, everSet, raced>>

Goto(at) ==
    /\ pc' = at
    /\ UNCHANGED <<app_id, app_secret, version, BASE_URL, access_token,
                   call, local, requests, response, result, everSet, raced>>

(***************************************************************************)
(* Methods that send without the token parameters.                         *)
(***************************************************************************)
\* Client.get_app_token
get_app_token ==
    /\ pc = "idle"
    /\ Begin([NoCall EXCEPT !.op = "get_app_token"],
             [NoLocal EXCEPT !.params =
                 [client_id |-> app_id, client_secret |-> app_secret,
                  grant_type |-> "client_credentials"]],
             "request")

\* urllib.parse.urlencode(params), kept as the ordered key/value pairs.
urlencode(pairs) == <<"urlencode">> \o pairs

\* Client.authorization_url
authorization_url(redirect_url, scope) ==
    /\ pc = "idle"
    /\ Immediate([NoCall EXCEPT !.op = "authorization_url",
                                !.redirect_url = redirect_url, !.scope = scope],
                 Return(<<"https://facebook.com/dialog/oauth?">> \o
                        urlencode(<<<<"client_id", app_id>>,
                                    <<"redirect_uri", redirect_url>>,
                                    <<"scope", Join(scope)>>>>)))

\* Client.exchange_code
exchange_code(redirect_url, code) ==
    /\ pc = "idle"
    /\ Begin([NoCall EXCEPT !.op = "exchange_code", !.id = code,
                            !.redirect_url = redirect_url],
             [NoLocal EXCEPT !.params =
                 [client_id |-> app_id, redirect_uri |-> redirect_url,
                  client_secret |-> app_secret, code |-> code]],
             "request")

\* Client.extend_token
extend_token(token) ==
    /\ pc = "idle"
    /\ Begin([NoCall EXCEPT !.op = "extend_token", !.token = token],
             [NoLocal EXCEPT !.params =
                 [grant_type |-> "fb_exchange_token", client_id |-> app_id,
                  client_secret |-> app_secret, fb_exchange_token |-> token]],
             "request")

\* Client.inspect_token
inspect_token(input_token, token) ==
    /\ pc = "idle"
    /\ Begin([NoCall EXCEPT !.op = "inspect_token", !.id = input_token,
                            !.token = token],
             [NoLocal EXCEPT !.params =
                 [input_token |-> input_token, access_token |-> token]],
             "request")

(***************************************************************************)
(* Methods behind @access_token_required.                                  *)
(***************************************************************************)
\* Client.get_account
get_account ==
    /\ pc = "idle"
    /\ Begin([NoCall EXCEPT !.op = "get_account"], NoLocal, "decorator")

\* Client.get_pages
get_pages ==
    /\ pc = "idle"
    /\ Begin([NoCall EXCEPT !.op = "get_pages"], NoLocal, "decorator")

\* Client.get_page_token: its own decorator, then get_pages behind a second.
get_page_token(page_id) ==
    /\ pc = "idle"
    /\ Begin([NoCall EXCEPT !.op = "get_page_token", !.id = page_id],
             NoLocal, "decorator")

\* Client.get_ad_account_leadgen_forms
get_ad_account_leadgen_forms(page_id) ==
    /\ pc = "idle"
    /\ Begin([NoCall EXCEPT !.op = "get_ad_account_leadgen_forms",
                            !.id = page_id],
             NoLocal, "decorator")

\* Client.get_ad_leads
get_ad_leads(form_id, from_date) ==
    /\ pc = "idle"
    /\ Begin([NoCall EXCEPT !.op = "get_ad_leads", !.id = form_id,
                            !.from_date = from_date],
             NoLocal, "decorator")

\* facebookmarketing.decorator.access_token_required: the guard in front of
\* the method, failing when the client holds no access token.
TokenMissing == access_token = None

access_token_required ==
    /\ pc \in {"decorator", "decorator_inner"}
    /\ IF TokenMissing
       THEN Finish(Raise("AccessTokenRequired", "access token required"))
       ELSE IF call.op = "get_page_token" /\ pc = "decorator"
            THEN Goto("decorator_inner")
            ELSE Goto("params")

(***************************************************************************)
(* Methods that take the token in the call.                                *)
(***************************************************************************)
\* Client.get_page_subscribed_apps
get_page_subscribed_apps(page_id, token) ==
    /\ pc = "idle"
    /\ Begin([NoCall EXCEPT !.op = "get_page_subscribed_apps", !.id = page_id,
                            !.token = token],
             NoLocal, "params")

\* Client.create_page_subscribed_apps
create_page_subscribed_apps(page_id, token) ==
    /\ pc = "idle"
    /\ Begin([NoCall EXCEPT !.op = "create_page_subscribed_apps",
                            !.id = page_id, !.token = token],
             NoLocal, "params")

\* Client.delete_page_subscribed_apps
delete_page_subscribed_apps(page_id, token) ==
    /\ pc = "idle"
    /\ Begin([NoCall EXCEPT !.op = "delete_page_subscribed_apps",
                            !.id = page_id, !.token = token],
             NoLocal, "params")

(***************************************************************************)
(* _get_params, in the two reads it makes of the client.                   *)
(***************************************************************************)
\* _token = token if token else self.access_token
ChooseToken(token) == IF Truthy(token) THEN token ELSE access_token

\* Client._get_app_secret_proof, for a token that is a str.
AppSecretProof(token) == HmacSha256Hex(app_secret, token)

\* _get_params with the proof taken over the stored token.
AuthParams_ProofOfStored(token) ==
    [access_token |-> token, appsecret_proof |-> AppSecretProof(access_token)]

\* The dict _get_params returns.
AuthParams(token) ==
    [access_token |-> token, appsecret_proof |-> AppSecretProof(token)]

\* Client._get_params, first statement.
get_params_token ==
    /\ pc = "params"
    /\ local' = [local EXCEPT !._token = ChooseToken(call.token)]
    /\ pc' = "proof"
    /\ UNCHANGED <<app_id, app_secret, version, BASE_URL, access_token,
                   call, requests, response, result, everSet, raced>>

\* Client._get_params, the returned dict; None.encode raises AttributeError.
get_params_proof ==
    /\ pc = "proof"
    /\ IF local._token = None
       THEN Finish(Raise("AttributeError", "encode"))
       ELSE /\ local' = [local EXCEPT !.params = AuthParams(local._token)]
            /\ pc' = IF call.op = "get_ad_leads" THEN "from_date" ELSE "request"
            /\ UNCHANGED <<app_id, app_secret, version, BASE_URL, access_token,
                           call, requests, response, result, everSet, raced>>

\* get_ad_leads: params['from_date'] = from_date.timestamp(); None has no
\* timestamp attribute.
set_from_date ==
    /\ pc = "from_date"
    /\ IF call.from_date.isNone
       THEN Finish(Raise("AttributeError", "timestamp"))
       ELSE /\ local' = [local EXCEPT !.params =
                  [access_token |-> local.params.access_token,
                   appsecret_proof |-> local.params.appsecret_proof,
                   from_date |-> Timestamp(call.from_date)]]
            /\ pc' = "request"
            /\ UNCHANGED <<app_id, app_secret, version, BASE_URL, access_token,
                           call, requests, response, result, everSet, raced>>

(***************************************************************************)
(* _request: the send, and the parse of the decoded body.                  *)
(***************************************************************************)
Method(op) ==
    CASE op = "create_page_subscribed_apps" -> "POST"
      [] op = "delete_page_subscribed_apps" -> "DELETE"
      [] OTHER -> "GET"

Url(c) ==
    CASE c.op \in {"get_app_token", "exchange_code", "extend_token"} ->
            BASE_URL \o "/oauth/access_token"
      [] c.op = "inspect_token" -> BASE_URL \o "/debug_token"
      [] c.op = "get_account" -> BASE_URL \o "/me"
      [] c.op \in {"get_pages", "get_page_token"} -> BASE_URL \o "/me/accounts"
      [] c.op \in {"get_page_subscribed_apps", "create_page_subscribed_apps",
                   "delete_page_subscribed_apps"} ->
            BASE_URL \o "/" \o c.id \o "/subscribed_apps"
      [] c.op = "get_ad_account_leadgen_forms" ->
            BASE_URL \o "/" \o c.id \o "/leadgen_forms"
      [] c.op = "get_ad_leads" -> BASE_URL \o "/" \o c.id \o "/leads"

\* requests.request(method.value, url, params=params, data=data)
send_request ==
    /\ pc = "request"
    /\ requests' = Append(requests, [method |-> Method(call.op),
                                     url |-> Url(call),
                                     params |-> local.params])
    /\ pc' = "response"
    /\ UNCHANGED <<app_id, app_secret, version, BASE_URL, access_token,
                   call, local, response, result, everSet, raced>>

\* next(...) without its default: an exhausted generator raises.
RECURSIVE FirstPage_NoDefault(_, _)
FirstPage_NoDefault(pages, page_id) ==
    IF Len(pages) = 0 THEN Raise("StopIteration", "")
    ELSE IF Head(pages).id = page_id THEN Return(Head(pages))
    ELSE FirstPage_NoDefault(Tail(pages), page_id)

\* next((p for p in pages['data'] if p['id'] == page_id), None)
RECURSIVE FirstPage(_, _)
FirstPage(pages, page_id) ==
    IF Len(pages) = 0 THEN ReturnNone
    ELSE IF Head(pages).id = page_id THEN Return(Head(pages))
    ELSE FirstPage(Tail(pages), page_id)

\* The rest of get_page_token once get_pages has returned body.
ScanPages(body, page_id) ==
    IF "data" \notin DOMAIN body THEN Raise("KeyError", "data")
    ELSE IF body["data"].t = "list" THEN FirstPage(body["data"].l, page_id)
    ELSE IF body["data"].t = "dict" /\ DOMAIN body["data"].d = {}
         THEN ReturnNone
    ELSE Raise("TypeError", "p['id']")

\* What the method in progress makes of the decoded body.
Outcome(c, body) ==
    LET parsed == Parse(body) IN
    IF c.op = "get_page_token" /\ parsed.kind = "return"
    THEN ScanPages(body, c.id)
    ELSE parsed

\* response.json() and self._parse, up to the return of the method.
receive_response(body) ==
    /\ pc = "response"
    /\ response' = body
    /\ result' = Outcome(call, body)
    /\ pc' = "idle"
    /\ UNCHANGED <<app_id, app_secret, version, BASE_URL, access_token,
                   call, local, requests, everSet, raced>>

\* response.json() on a body that is not JSON.
receive_not_json ==
    /\ pc = "response"
    /\ Finish(Raise("ValueError", "json"))

(***************************************************************************)
(* The endpoints that are not implemented.                                 *)
(***************************************************************************)
StubNames == {
    "create_ad_leads", "get_ad_creatives", "get_ad_copies",
    "create_ad_copies", "get_ad_insights", "create_ad_insights",
    "get_ad_keyword_stats", "get_ad_previews",
    "get_ad_targeting_sentence_lines", "get_ad_account_activities",
    "get_ad_account_ad_place_page_sets",
    "create_ad_account_ad_place_page_sets", "get_ad_account_ad_studies",
    "get_ad_account_ad_asset_feeds", "get_ad_account_ad_creatives",
    "create_ad_account_ad_creatives",
    "get_ad_account_ad_creatives_by_labels", "get_ad_account_ad_images",
    "create_ad_account_ad_images", "delete_ad_account_ad_images",
    "get_ad_account_ad_labels", "create_ad_account_ad_labels",
    "get_ad_account_ad_report_runs", "get_ad_account_ad_report_schedules",
    "get_ad_account_ad_rules_library", "create_ad_account_ad_rules_library",
    "get_ad_account_ads", "create_ad_account_ads",
    "get_ad_account_ads_by_label", "get_ad_account_adsets",
    "create_ad_account_adsets", "get_ad_account_adsets_by_labels",
    "get_ad_account_ads_pixel", "create_ad_account_ads_pixel",
    "get_ad_account_adtoplinedetails", "get_ad_account_adtoplines",
    "get_ad_account_advertisable_applications", "get_ad_account_advideos",
    "create_ad_account_advideos", "get_ad_account_an_roas",
    "get_ad_account_applications", "get_ad_account_async_requests",
    "get_ad_account_asyncadrequestsets",
    "create_ad_account_asyncadrequestsets",
    "get_ad_account_broadtargetingcategories",
    "get_ad_account_business_activities", "get_ad_account_campaigns",
    "create_ad_account_campaigns", "delete_ad_account_campaigns",
    "get_ad_account_campaigns_by_label",
    "get_ad_account_contextual_targeting_browse",
    "get_ad_account_custom_audiences", "create_ad_account_custom_audiences",
    "get_ad_account_custom_audiencestos", "get_ad_account_delivery_estimate",
    "get_ad_account_generate_previews", "get_ad_account_insights",
    "create_ad_account_insights", "get_ad_account_instagram_accounts",
    "get_ad_account_minimum_budgets",
    "get_ad_account_offline_conversion_data_sets",
    "get_ad_account_offsitepixels", "create_account_ad_offsitepixels",
    "get_ad_account_partnercategories", "get_ad_account_partners",
    "get_ad_account_publisher_block_lists",
    "create_ad_account_publisher_block_lists", "get_ad_account_ratecard",
    "get_ad_account_reachestimate",
    "get_ad_account_reach_frequency_predictions",
    "create_ad_account_reach_frequency_predictions", "get_ad_account_roas",
    "get_ad_account_rule_execution_history",
    "get_ad_account_targeting_browse", "get_ad_account_targeting_search",
    "get_ad_account_targeting_sentence_lines",
    "get_ad_account_targeting_suggestions",
    "get_ad_account_targeting_validations",
    "get_ad_account_targeting_tracking",
    "create_ad_account_targeting_tracking",
    "delete_ad_account_targeting_tracking",
    "get_ad_account_targeting_transactions", "get_ad_account_users"}

\* A stub whose body is `pass`.
stub_Pass(name) ==
    /\ pc = "idle"
    /\ Immediate([NoCall EXCEPT !.op = name], ReturnNone)

\* Client.create_ad_leads .. Client.get_ad_account_users
stub(name) ==
    /\ pc = "idle"
    /\ Immediate([NoCall EXCEPT !.op = name],
                 Raise("NotImplementedError", ""))

Next ==
    \/ \E token \in TokenValues : set_access_token(token)
    \/ get_app_token
    \/ \E r \in RedirectUrls, s \in Scopes : authorization_url(r, s)
    \/ \E r \in RedirectUrls, c \in OauthCodes : exchange_code(r, c)
    \/ \E t \in TokenValues : extend_token(t)
    \/ \E i \in {"tokA"}, t \in TokenValues : inspect_token(i, t)
    \/ get_account
    \/ get_pages
    \/ \E p \in PageIds : get_page_token(p)
    \/ \E p \in PageIds, t \in TokenValues : get_page_subscribed_apps(p, t)
    \/ \E p \in PageIds, t \in TokenValues : create_page_subscribed_apps(p, t)
    \/ \E p \in PageIds, t \in TokenValues : delete_page_subscribed_apps(p, t)
    \/ \E p \in PageIds : get_ad_account_leadgen_forms(p)
    \/ \E f \in PageIds, d \in DateTimes \cup {NoDate} : get_ad_leads(f, d)
    \/ access_token_required
    \/ get_params_token
    \/ get_params_proof
    \/ set_from_date
    \/ send_request
    \/ \E body \in Bodies : receive_response(body)
    \/ receive_not_json
    \/ \E name \in StubNames : stub(name)

Spec == Init /\ [][Next]_vars

(***************************************************************************)
(* Properties.                                                             *)
(***************************************************************************)
TokenRequiredOps ==
    {"get_account", "get_pages", "get_page_token",
     "get_ad_account_leadgen_forms", "get_ad_leads"}
SubscribedAppsOps ==
    {"get_page_subscribed_apps", "create_page_subscribed_apps",
     "delete_page_subscribed_apps"}
AuthenticatedOps == TokenRequiredOps \cup SubscribedAppsOps
NetworkOps ==
    AuthenticatedOps \cup
    {"get_app_token", "exchange_code", "extend_token", "inspect_token"}

\* The call has ended (returned or raised).
Ended == pc = "idle" /\ result.kind # "none"
\* The call has ended in _parse's verdict on a decoded body.
Parsed == Ended /\ response # NoBody

\* Every request of an authenticated method carries the proof of the token
\* it carries, and that token is the local _token.
ProofMatchesToken ==
    call.op \in AuthenticatedOps =>
        \A i \in 1..Len(requests) :
            /\ requests[i].params.appsecret_proof =
                   HmacSha256Hex(app_secret, requests[i].params.access_token)
            /\ requests[i].params.access_token = local._token

\* The step that fixes _token takes the argument when it is a non-empty
\* token, and otherwise the token stored on the client at that moment.
TokenChosenAtRead ==
    (pc = "params" /\ pc' = "proof") =>
        local'._token = IF call.token # None /\ call.token # ""
                        THEN call.token ELSE access_token

\* C1: every request an authenticated method sends, under any interleaving
\* of set_access_token with the method's steps, carries
\* appsecret_proof = HMAC-SHA256(app_secret, T) for the access_token T of the
\* same request, where T is the token argument when one (a non-empty token)
\* is given and otherwise the client's stored token as _get_params read it.
C1_ProofOfCarriedToken == []ProofMatchesToken /\ [][TokenChosenAtRead]_vars

\* C1, reached: a request was sent, set_access_token ran meanwhile, and the
\* stored token is no longer the one the request carries.
C1_Witness ==
    /\ call.op = "get_account"
    /\ Len(requests) = 1
    /\ raced
    /\ access_token = "tokB"
    /\ requests[1].params.access_token = "tokA"

\* C2: a token-required method called on a client on which set_access_token
\* was never invoked ends in the access-token-required error without a
\* request, and the client still holds no token.
C2_NeverSetFailsPrecondition ==
    (~everSet /\ call.op \in TokenRequiredOps) =>
        /\ pc \in {"decorator", "idle"}
        /\ requests = <<>>
        /\ access_token = None
        /\ BASE_URL = "https://graph.facebook.com/" \o version
        /\ pc = "idle" =>
              /\ result.kind = "raise"
              /\ result.exc = "AccessTokenRequired"

\* C2, reached: get_ad_leads has failed on a never-set client.
C2_Witness ==
    /\ ~everSet
    /\ call.op = "get_ad_leads"
    /\ pc = "idle"
    /\ result.kind = "raise"

\* C3: the request a page_subscribed_apps method sends carries the token
\* argument of the call, whatever the argument and the stored token are,
\* and never the stored token in its place.
C3_SubscribedAppsUseArgumentOnly ==
    call.op \in SubscribedAppsOps =>
        \A i \in 1..Len(requests) :
            requests[i].params.access_token = call.token

\* The error object of a body, top level first, and whether there is one.
HasErrorObject(body) ==
    \/ "error" \in DOMAIN body /\ body["error"].t = "dict"
    \/ /\ "data" \in DOMAIN body
       /\ body["data"].t = "dict"
       /\ "error" \in DOMAIN body["data"].d
       /\ body["data"].d["error"].t = "dict"
ErrorObject(body) ==
    IF "error" \in DOMAIN body /\ body["error"].t = "dict"
    THEN body["error"].d
    ELSE body["data"].d["error"].d
HasCodeAndMessage(body) ==
    /\ HasErrorObject(body)
    /\ {"code", "message"} \subseteq DOMAIN ErrorObject(body)

\* The kinds of the classification table.
TableKinds ==
    {"UnknownError", "AppRateLimit", "UserRateLimit", "AppPermissionRequired",
     "ExtendedPermissionRequired", "InvalidParameter", "SessionKeyInvalid",
     "IncorrectPermission", "InvalidOauth20AccessToken"}

\* C4: a body whose error object has the code of one of the nine table
\* kinds makes _parse raise the kind of that name (the class named after the
\* kind), with the message as its detail.
C4_KnownCodeRaisesKindOfSameName ==
    (Parsed /\ HasCodeAndMessage(response)
            /\ ErrorObject(response)["code"] \in ErrorEnumCodes) =>
        \E k \in TableKinds :
            /\ ErrorEnumMembers[k] = ErrorObject(response)["code"]
            /\ result.kind = "raise"
            /\ result.exc \in {k, k \o "Error"}
            /\ result.detail = ErrorObject(response)["message"]

\* C5: a body whose error object has a code outside the enumeration makes
\* _parse raise UnexpectedError, its detail holding that code and that
\* message; it raises nothing else and returns nothing.
C5_UnlistedCodeRaisesUnexpected ==
    (Parsed /\ HasCodeAndMessage(response)
            /\ ErrorObject(response)["code"] \notin ErrorEnumCodes) =>
        /\ result.kind = "raise"
        /\ result.exc = "UnexpectedError"
        /\ Len(result.detail) = 4
        /\ result.detail[2] = ErrorObject(response)["code"]
        /\ result.detail[4] = ErrorObject(response)["message"]

\* C5, reached: code 999999 with message "x" was classified.
C5_Witness ==
    /\ Parsed
    /\ response = [error |-> JDict([code |-> 999999, message |-> "x"])]
    /\ result.kind = "raise"
    /\ result.exc = "UnexpectedError"

\* C6: _parse returns the body, unchanged, exactly when the body holds no
\* error object at the top level or under data; with an error object
\* present, whatever is in it, _parse raises.
C6_ReturnsIffNoErrorObject ==
    (Parsed /\ call.op # "get_page_token") =>
        IF HasErrorObject(response)
        THEN result.kind = "raise"
        ELSE result.kind = "return" /\ ~result.isNone
             /\ result.value = response

\* C7: a stub ends at once in NotImplementedError, with no request sent,
\* whatever the client holds, and its step leaves the client as it was.
C7_StubsRaiseNotImplemented ==
    /\ [](call.op \in StubNames =>
            /\ pc = "idle"
            /\ requests = <<>>
            /\ result.kind = "raise"
            /\ result.exc = "NotImplementedError")
    /\ [][(call'.op \in StubNames /\ stub(call'.op)) => client' = client]_vars

\* C7, reached: a stub has failed on a client whose token is set.
C7_Witness ==
    /\ call.op = "get_ad_account_users"
    /\ access_token = "tokA"
    /\ result.kind = "raise"
    /\ result.exc = "NotImplementedError"

\* The indices of the entries of a page list with the given id.
Matches(pages, page_id) == {i \in 1..Len(pages) : pages[i].id = page_id}

\* C8: after a pages response without error whose data is a list,
\* get_page_token returns the first entry of the list with the requested
\* id, and returns None, raising nothing, when no entry has it.
C8_PageTokenFirstMatchOrNone ==
    (Parsed /\ call.op = "get_page_token"
            /\ DOMAIN response = {"data"} /\ response["data"].t = "list") =>
        LET pages == response["data"].l
            found == Matches(pages, call.id)
        IN /\ result.kind = "return"
           /\ IF found = {}
              THEN result.isNone
              ELSE /\ ~result.isNone
                   /\ result.value =
                        pages[CHOOSE i \in found : \A j \in found : i <= j]

\* C8, reached: a non-empty list without the requested id gave None.
C8_Witness ==
    /\ Parsed
    /\ call.op = "get_page_token"
    /\ call.id = "p1"
    /\ response = [data |-> JList(<<Page("p2", "ptB")>>)]
    /\ result.kind = "return"
    /\ result.isNone

\* C9: the fields set at construction never change; the stored token
\* changes in set_access_token steps only; set_access_token stores the
\* value it is given, whatever it is, and touches nothing else of the
\* client; a call without a token argument then reads the stored value.
C9_OnlySetAccessTokenWritesClient ==
    /\ [][<<app_id, app_secret, version, BASE_URL>>' =
          <<app_id, app_secret, version, BASE_URL>>]_vars
    /\ [][access_token' # access_token =>
            \E t \in TokenValues : set_access_token(t)]_vars
    /\ [][\A t \in TokenValues : set_access_token(t) => access_token' = t]_vars
    /\ [][(pc = "params" /\ pc' = "proof" /\ call.op \in TokenRequiredOps) =>
            local'._token = access_token]_vars

\* C9, reached: the empty token was stored over a set one, and a
\* token-default call has read it.
C9_Witness ==
    /\ everSet
    /\ access_token = ""
    /\ call.op = "get_pages"
    /\ pc = "proof"
    /\ local._token = ""

\* The call met its precondition: a stored token for the methods that
\* require one, a token argument for the methods that take one.
PassedPrecondition ==
    /\ call.op \in TokenRequiredOps => Truthy(access_token)
    /\ call.op \in SubscribedAppsOps => Truthy(call.token)

\* C10: a network method that passes its precondition has sent exactly one
\* request when it ends, returned or failed (set_access_token not having
\* run meanwhile).
C10_ExactlyOneRequestPerCall ==
    (Ended /\ call.op \in NetworkOps /\ ~raced /\ PassedPrecondition) =>
        Len(requests) = 1
====
